---- MODULE Spec2Model ----
(***************************************************************************)
(* Session replay view of the AI ATC demo                                  *)
(* (frontend/src/routes/replay/[id]/+page.svelte).                         *)
(*                                                                         *)
(* Time representation.  Game time, the cursor and the speed multiplier    *)
(* are JavaScript numbers.  The speed multiplier only takes the values     *)
(* 0.5, 0.625, 1, 1.25, 2, 2.5, 4, 5, 8, 10 (select options and repeated   *)
(* doubling / halving), all multiples of 1/8, and the wall clock is        *)
(* sampled in whole seconds, so every time value of the model is an exact  *)
(* multiple of 1/8 s.  Game time and the cursor are counted in units of    *)
(* 1/8 s and the speed multiplier in eighths; the wall clock `now` is in   *)
(* milliseconds as performance.now() returns it.                           *)
(***************************************************************************)
EXTENDS Integers, Sequences, FiniteSets, TLC

\* ---------------------------------------------------------------- bounds
MaxSeconds == 2        \* the wall clock runs from 0 to MaxSeconds seconds
MaxLogSeconds == 2     \* largest game_time (seconds) of the session logs
MaxPending == 2        \* most animation frame callbacks pending at once
MaxSnaps == 2          \* most snapshots of a generated log
MaxMarkers == 3        \* most conflict / ils_clearance events of a generated log
MaxDecisions == 3      \* most decisions of a short generated log
MaxUrls == 2           \* most screenshot object URLs created in a run

\* ------------------------------------------------------------- constants
UnitsPerSecond == 8    \* cursor units per second (speeds are multiples of 1/8)
NoTime == -1           \* lastRealTime = null
NoFrame == 0           \* animationFrame = null (request ids are positive)
NoUrl == 0             \* screenshotUrl = null (object URLs are numbered from 1)
NoTimer == 0           \* pollInterval = null (timeout ids are positive)
DecisionLimit == 20    \* .slice(-20) of currentDecisions

VARIABLES
    events,          \* let events = $state<any[]>([])
    loading,         \* let loading = $state(true)
    error,           \* let error = $state<string | null>(null)
    playing,         \* let playing = $state(false)
    currentTime,     \* let currentTime = $state(0)          (units of 1/8 s)
    playbackSpeed,   \* let playbackSpeed = $state(1)        (eighths)
    animationFrame,  \* let animationFrame: number | null
    lastRealTime,    \* let lastRealTime: number | null      (ms)
    now,             \* performance.now()                    (ms)
    rafCallbacks,    \* the window's list of animation frame callbacks (ids)
    rafRunning,      \* ids still to run in the frame being processed
    view,            \* "created" | "mounted" | "destroyed"
    fetching,        \* the fetch of fetchEvents() is in flight
    lastOp           \* history: the last handler that ran, and its argument

\* the live monitor page
VARIABLES
    mcp_running,     \* agentStatus.mcp_running
    screenshotUrl,   \* let screenshotUrl = $state<string | null>(null)
    polling,         \* let polling = true
    pollInterval,    \* let pollInterval: the id of the last timeout set
    timers,          \* the window's pending timeouts (ids)
    mountTask,       \* where the async onMount callback stands
    polls,           \* where each activation of poll() in flight stands
    monitor,         \* "created" | "mounted" | "destroyed"
    created,         \* history: the object URLs created so far
    revoked,         \* history: the object URLs revoked so far
    monitorOp        \* history: the last step of the live monitor

monitorVars == <<mcp_running, screenshotUrl, polling, pollInterval, timers,
                 mountTask, polls, monitor, created, revoked, monitorOp>>

replayVars == <<events, loading, error, playing, currentTime, playbackSpeed,
                animationFrame, lastRealTime, now, rafCallbacks, rafRunning,
                view, fetching, lastOp>>

vars == <<replayVars, monitorVars>>

Min(a, b) == IF a <= b THEN a ELSE b
Max(a, b) == IF a >= b THEN a ELSE b

Range(s) == {s[i] : i \in 1..Len(s)}

RECURSIVE SeqMax(_)
SeqMax(s) == IF Len(s) = 1 THEN s[1] ELSE Max(s[1], SeqMax(Tail(s)))

Remove(s, x) == SelectSeq(s, LAMBDA y : y # x)

\* ---------------------------------------------------------------- numbers
\* The interpolator divides, so the numbers of an aircraft record are exact
\* rationals <<n, d>> with d > 0 in lowest terms.
Abs(x) == IF x < 0 THEN -x ELSE x

RECURSIVE GCD(_, _)
GCD(a, b) == IF b = 0 THEN a ELSE GCD(b, a % b)

\* n / d, d # 0
Rat(n, d) ==
    LET g == GCD(Abs(n), Abs(d))
        sgn == IF d < 0 THEN -1 ELSE 1
    IN  <<sgn * (n \div g), sgn * (d \div g)>>

Num(x) == <<x, 1>>

RAdd(p, q) == Rat(p[1] * q[2] + q[1] * p[2], p[2] * q[2])
RSub(p, q) == Rat(p[1] * q[2] - q[1] * p[2], p[2] * q[2])
RMul(p, q) == Rat(p[1] * q[1], p[2] * q[2])
RLess(p, q) == p[1] * q[2] < q[1] * p[2]
RLeq(p, q) == p[1] * q[2] <= q[1] * p[2]

\* JavaScript's p % m for an integer m > 0: the remainder of the division
\* truncated towards zero, so it has the sign of p.
RRem(p, m) ==
    LET k == m * p[2]
        q == IF p[1] >= 0 THEN p[1] \div k ELSE -((-p[1]) \div k)
    IN  Rat(p[1] - k * q, p[2])

\* ------------------------------------------------------------ event logs
Aircraft(cs, x, y, alt, hdg, spd) ==
    [callsign |-> cs, position |-> <<Num(x), Num(y)>>, altitude |-> Num(alt),
     heading |-> Num(hdg), speed |-> Num(spd)]

Snapshot(sec, acs) ==
    [event_type |-> "state_snapshot", game_time |-> sec * UnitsPerSecond,
     aircraft |-> acs]

Timed(kind, sec) == [event_type |-> kind, game_time |-> sec * UnitsPerSecond]

SessionStart == [event_type |-> "session_start"]

\* e.game_time || 0
GameTimeOr0(e) == IF "game_time" \in DOMAIN e THEN e.game_time ELSE 0

\* Math.max(...events.map((e) => e.game_time || 0)), or 0 for no events
MaxTimeOf(evs) ==
    IF Len(evs) > 0 THEN SeqMax([i \in 1..Len(evs) |-> GameTimeOr0(evs[i])])
    ELSE 0

maxTime == MaxTimeOf(events)

\* e.event_type, undefined when the field is missing
EventType(e) ==
    IF "event_type" \in DOMAIN e THEN e.event_type ELSE "undefined"

OfType(evs, kind) == SelectSeq(evs, LAMBDA e : EventType(e) = kind)

snapshots == OfType(events, "state_snapshot")

AcA0 == Aircraft("AC1", 0, 0, 1000, 350, 200)
AcA1 == Aircraft("AC1", 4, 8, 2000, 10, 240)
AcB0 == Aircraft("AC2", 8, 0, 3000, 90, 180)

\* The session logs the Event Log Service may return (game_time in seconds
\* up to MaxLogSeconds).
SessionLogs ==
    { <<>>,
      <<SessionStart, Snapshot(0, <<AcA0, AcB0>>),
        Snapshot(MaxLogSeconds - 1, <<AcA1>>),
        Timed("landing", MaxLogSeconds)>>,
      <<Snapshot(1, <<AcA0>>), Timed("conflict", 1),
        Snapshot(MaxLogSeconds, <<AcA1>>)>> }

AcB1 == Aircraft("AC2", 0, 8, 2500, 270, 150)

AircraftLists == { <<AcA0, AcB0>>, <<AcA1>>, <<AcB1, AcA1>> }

\* conflict and ils_clearance events; the callsigns are numbered
Conflict(sec, n) ==
    [event_type |-> "conflict", game_time |-> sec * UnitsPerSecond,
     aircraft1 |-> n, aircraft2 |-> n + 1]

IlsClearance(sec, n) ==
    [event_type |-> "ils_clearance", game_time |-> sec * UnitsPerSecond,
     callsign |-> n, runway |-> "27L"]

\* snapshot sequences in ascending (non-decreasing) game_time, alone or
\* followed by a landing at MaxLogSeconds
SnapshotLogs ==
    LET seqs == UNION { { [i \in 1..n |-> Snapshot(tm[i], ac[i])] :
                            tm \in { f \in [1..n -> 0..MaxLogSeconds] :
                                       \A i \in 1..(n - 1) : f[i] <= f[i + 1] },
                            ac \in [1..n -> AircraftLists] } :
                        n \in 1..MaxSnaps }
    IN  seqs \cup { Append(l, Timed("landing", MaxLogSeconds)) : l \in seqs }

\* conflict and ils_clearance events in any order of kind and time
MarkerLogs ==
    UNION { { [i \in 1..n |-> IF kd[i] = "conflict"
                               THEN Conflict(tm[i], i)
                               ELSE IlsClearance(tm[i], i)] :
                tm \in [1..n -> 0..MaxLogSeconds],
                kd \in [1..n -> {"conflict", "ils_clearance"}] } :
            n \in 0..MaxMarkers }

\* lists with an event that lacks event_type, or a decision without game_time
MalformedLogs ==
    { <<[game_time |-> UnitsPerSecond]>>,
      <<Snapshot(0, <<AcA0>>), [event_type |-> "decision", callsign |-> "AC1"],
        Snapshot(1, <<AcA1>>)>> }

\* headings in [0, 360) on both sides of the wrap and of the half turn
Headings == {0, 10, 90, 170, 180, 190, 270, 350, 359}

\* one aircraft that turns from heading a to heading b over the whole log
HeadingLogs ==
    { <<Snapshot(0, <<Aircraft("AC1", 0, 0, 1000, a, 200)>>),
        Snapshot(MaxLogSeconds, <<Aircraft("AC1", 0, 0, 1000, b, 200)>>)>> :
      a \in Headings, b \in Headings }

\* decision events; the callsigns are numbered
Decision(sec, n) ==
    [event_type |-> "decision", game_time |-> sec * UnitsPerSecond,
     callsign |-> n, command_type |-> "heading"]

\* short decision lists in any order of time
ShortDecisionLogs ==
    UNION { { [i \in 1..n |-> Decision(tm[i], i)] :
                tm \in [1..n -> 0..MaxLogSeconds] } :
            n \in 1..MaxDecisions }

\* decision lists as long as the limit of the decision log and longer; the
\* game_time either runs round 0..MaxLogSeconds or is 0 but for every
\* fifth decision, which is at MaxLogSeconds
LongDecisionLogs ==
    { [i \in 1..n |-> Decision(IF round THEN i % (MaxLogSeconds + 1)
                               ELSE IF i % 5 = 0 THEN MaxLogSeconds ELSE 0,
                               i)] :
      n \in {DecisionLimit, DecisionLimit + 10}, round \in BOOLEAN }

DecisionLogs == ShortDecisionLogs \cup LongDecisionLogs

\* what the Event Log Service may return to a view that is only scrubbed
ScrubLogs ==
    SnapshotLogs \cup HeadingLogs \cup MarkerLogs \cup DecisionLogs
        \cup MalformedLogs

\* ----------------------------------------------------- state interpolator
\* `!snap.aircraft`: the field is missing
HasAircraft(e) == "aircraft" \in DOMAIN e

\* The loop of currentAircraft over the snapshots from index i on; ba holds
\* the indices of `before` and `after` (both start at snapshots[0]).
\* the loop with a fault: `before` only moves to snapshots earlier than time
RECURSIVE BracketLoop_StrictBefore(_, _, _, _)
BracketLoop_StrictBefore(snaps, time, i, ba) ==
    IF i > Len(snaps) THEN ba
    ELSE LET b == IF snaps[i].game_time < time THEN i ELSE ba[1]
             a == IF snaps[i].game_time >= time
                     /\ snaps[ba[2]].game_time < time
                  THEN i ELSE ba[2]
         IN  BracketLoop_StrictBefore(snaps, time, i + 1, <<b, a>>)

RECURSIVE BracketLoop(_, _, _, _)
BracketLoop(snaps, time, i, ba) ==
    IF i > Len(snaps) THEN ba
    ELSE LET b == IF snaps[i].game_time <= time THEN i ELSE ba[1]
             a == IF snaps[i].game_time >= time
                     /\ snaps[ba[2]].game_time < time
                  THEN i ELSE ba[2]
         IN  BracketLoop(snaps, time, i + 1, <<b, a>>)

Bracket(snaps, time) == BracketLoop(snaps, time, 1, <<1, 1>>)

\* the condition of the early return: same snapshot, a snapshot without
\* aircraft, or equal game_time
ReturnsVerbatim(snaps, time) ==
    LET ba == Bracket(snaps, time)
    IN  \/ ba[1] = ba[2]
        \/ ~HasAircraft(snaps[ba[1]])
        \/ ~HasAircraft(snaps[ba[2]])
        \/ snaps[ba[1]].game_time = snaps[ba[2]].game_time

\* currentAircraft reaches the interpolation code
Interpolates(snaps, time) ==
    Len(snaps) > 0 /\ ~ReturnsVerbatim(snaps, time)

\* the interpolation with a fault: the fraction t is left out
Lerp_NoFraction(b, a, t) == RAdd(b, RSub(a, b))

\* b + (a - b) * t
Lerp(b, a, t) == RAdd(b, RMul(RSub(a, b), t))

\* the heading interpolation with a fault: the delta is not wrapped
interpolateAngle_NoWrap(a, b, t) ==
    RRem(RAdd(RAdd(a, RMul(RSub(b, a), t)), Num(360)), 360)

interpolateAngle(a, b, t) ==
    LET d0 == RSub(b, a)
        d1 == IF RLess(Num(180), d0) THEN RSub(d0, Num(360)) ELSE d0
        diff == IF RLess(d1, Num(-180)) THEN RAdd(d1, Num(360)) ELSE d1
    IN  RRem(RAdd(RAdd(a, RMul(diff, t)), Num(360)), 360)

\* new Map(list.map((a) => [a.callsign, a])): the keys in the order of
\* their first occurrence, each with the last record that has it
MapKeys(list) ==
    LET first == SelectSeq([i \in 1..Len(list) |-> i],
                           LAMBDA i : \A j \in 1..(i - 1) :
                                         list[j].callsign # list[i].callsign)
    IN  [k \in 1..Len(first) |-> list[first[k]].callsign]

MapHas(list, cs) == \E i \in 1..Len(list) : list[i].callsign = cs

MapGet(list, cs) ==
    LET last == CHOOSE i \in 1..Len(list) :
                   /\ list[i].callsign = cs
                   /\ \A j \in (i + 1)..Len(list) : list[j].callsign # cs
    IN  list[last]

\* the record pushed for one callsign of beforeMap
Interpolated(beforeAc, afterList, t) ==
    IF MapHas(afterList, beforeAc.callsign)
    THEN LET afterAc == MapGet(afterList, beforeAc.callsign)
         IN  [beforeAc EXCEPT
                !.altitude = Lerp(beforeAc.altitude, afterAc.altitude, t),
                !.heading = interpolateAngle(beforeAc.heading,
                                             afterAc.heading, t),
                !.speed = Lerp(beforeAc.speed, afterAc.speed, t),
                !.position = <<Lerp(beforeAc.position[1],
                                    afterAc.position[1], t),
                               Lerp(beforeAc.position[2],
                                    afterAc.position[2], t)>>]
    ELSE beforeAc

\* the interpolation fraction t of currentAircraft
Fraction(snaps, time) ==
    LET ba == Bracket(snaps, time)
    IN  Rat(time - snaps[ba[1]].game_time,
            snaps[ba[2]].game_time - snaps[ba[1]].game_time)

\* currentAircraft with a fault: only callsigns of both snapshots are pushed
AircraftAt_OnlyCommon(snaps, time) ==
    IF Len(snaps) = 0 THEN <<>>
    ELSE LET ba == Bracket(snaps, time)
             before == snaps[ba[1]]
             after == snaps[ba[2]]
         IN  IF ReturnsVerbatim(snaps, time)
             THEN IF HasAircraft(before) THEN before.aircraft ELSE <<>>
             ELSE LET t == Fraction(snaps, time)
                      keys == SelectSeq(MapKeys(before.aircraft),
                                  LAMBDA cs : MapHas(after.aircraft, cs))
                  IN  [k \in 1..Len(keys) |->
                         Interpolated(MapGet(before.aircraft, keys[k]),
                                      after.aircraft, t)]

\* currentAircraft with a fault: callsigns of `after` alone are pushed too
AircraftAt_WithArrivals(snaps, time) ==
    IF Len(snaps) = 0 THEN <<>>
    ELSE LET ba == Bracket(snaps, time)
             before == snaps[ba[1]]
             after == snaps[ba[2]]
         IN  IF ReturnsVerbatim(snaps, time)
             THEN IF HasAircraft(before) THEN before.aircraft ELSE <<>>
             ELSE LET t == Fraction(snaps, time)
                      keys == MapKeys(before.aircraft \o after.aircraft)
                  IN  [k \in 1..Len(keys) |->
                         IF MapHas(before.aircraft, keys[k])
                         THEN Interpolated(MapGet(before.aircraft, keys[k]),
                                           after.aircraft, t)
                         ELSE MapGet(after.aircraft, keys[k])]

\* currentAircraft for a snapshot list and a cursor
AircraftAt(snaps, time) ==
    IF Len(snaps) = 0 THEN <<>>
    ELSE LET ba == Bracket(snaps, time)
             before == snaps[ba[1]]
             after == snaps[ba[2]]
         IN  IF ReturnsVerbatim(snaps, time)
             THEN IF HasAircraft(before) THEN before.aircraft ELSE <<>>
             ELSE LET t == Fraction(snaps, time)
                      keys == MapKeys(before.aircraft)
                  IN  [k \in 1..Len(keys) |->
                         Interpolated(MapGet(before.aircraft, keys[k]),
                                      after.aircraft, t)]

currentAircraft == AircraftAt(snapshots, currentTime)

\* --------------------------------------------------------- decision log
decisions == OfType(events, "decision")

\* d.game_time <= time; false when game_time is undefined
AtOrBefore(d, time) == "game_time" \in DOMAIN d /\ d.game_time <= time

\* slice(-n) with a fault: the first n elements are taken
LastN_FromStart(list, n) == SubSeq(list, 1, Min(n, Len(list)))

\* list.slice(-n)
LastN(list, n) == SubSeq(list, Max(1, Len(list) - n + 1), Len(list))

\* list.reverse()
Reverse(list) == [i \in 1..Len(list) |-> list[Len(list) + 1 - i]]

currentDecisionsAt(evs, time) ==
    Reverse(LastN(SelectSeq(OfType(evs, "decision"),
                            LAMBDA d : AtOrBefore(d, time)),
                  DecisionLimit))

currentDecisions == currentDecisionsAt(events, currentTime)

\* ------------------------------------------------------- timeline index
ConflictMarker(c) ==
    [time |-> c.game_time, type |-> "conflict",
     label |-> <<"Conflict", c.aircraft1, c.aircraft2>>]

IlsMarker(e) ==
    [time |-> e.game_time, type |-> "ils",
     label |-> <<"ILS", e.callsign, e.runway>>]

\* the markers pushed by the two loops, before the sort
MarkersPushed(evs) ==
    LET cs == OfType(evs, "conflict")
        is == OfType(evs, "ils_clearance")
    IN  [i \in 1..Len(cs) |-> ConflictMarker(cs[i])]
           \o [i \in 1..Len(is) |-> IlsMarker(is[i])]

\* the comparator with a fault: later markers first
ByTime_Descending(a, b) == b.time - a.time

\* the comparator (a, b) => a.time - b.time
ByTime(a, b) == a.time - b.time

\* x put into the sorted list `sorted` behind every element that does not
\* compare greater (Array.prototype.sort is stable)
InsertSorted(sorted, x) ==
    LET k == Cardinality({i \in 1..Len(sorted) : ByTime(sorted[i], x) <= 0})
    IN  SubSeq(sorted, 1, k) \o <<x>> \o SubSeq(sorted, k + 1, Len(sorted))

RECURSIVE SortByTime(_)
SortByTime(ms) ==
    IF Len(ms) = 0 THEN <<>>
    ELSE InsertSorted(SortByTime(SubSeq(ms, 1, Len(ms) - 1)), ms[Len(ms)])

timelineEventsOf(evs) == SortByTime(MarkersPushed(evs))

timelineEvents == timelineEventsOf(events)

\* ------------------------------------------------- script state as a value
\* The handlers call one another (play -> tick -> pause), so each is an
\* operator from script state to script state.
St == [playing |-> playing, currentTime |-> currentTime,
       playbackSpeed |-> playbackSpeed, animationFrame |-> animationFrame,
       lastRealTime |-> lastRealTime, rafCallbacks |-> rafCallbacks]

\* requestAnimationFrame returns an id that identifies the entry; ids are
\* opaque, so the model reuses the smallest id that is not in use (not in the
\* callback list, not in the frame being run, not the one the script holds).
FreshHandle(s) ==
    CHOOSE h \in 1..(Len(s.rafCallbacks) + Len(rafRunning) + 2) :
        /\ h \notin Range(s.rafCallbacks)
        /\ h \notin Range(rafRunning)
        /\ h # s.animationFrame
        /\ \A g \in 1..(h - 1) :
              g \in Range(s.rafCallbacks) \/ g \in Range(rafRunning)
                 \/ g = s.animationFrame

cancelAnimationFrame(s, h) ==
    [s EXCEPT !.rafCallbacks = Remove(@, h)]

pause(s) ==
    LET s1 == [s EXCEPT !.playing = FALSE]
    IN  IF s1.animationFrame # NoFrame
        THEN [cancelAnimationFrame(s1, s1.animationFrame)
                 EXCEPT !.animationFrame = NoFrame]
        ELSE s1

\* TickAdvance with a fault: the speed multiplier is not applied
TickAdvance_NoSpeed(s) ==
    Min(s.currentTime + ((now - s.lastRealTime) \div 1000), maxTime)

TickAdvance(s) ==
    Min(s.currentTime + ((now - s.lastRealTime) \div 1000) * s.playbackSpeed,
        maxTime)

\* tick with a fault: the `if (!playing) return` guard is missing
tick_NoGuard(s) ==
    LET s1 == IF s.lastRealTime # NoTime
              THEN LET s11 == [s EXCEPT !.currentTime = TickAdvance(s)]
                   IN  IF s11.currentTime >= maxTime THEN pause(s11) ELSE s11
              ELSE s
        s2 == [s1 EXCEPT !.lastRealTime = now]
        h  == FreshHandle(s2)
    IN  [s2 EXCEPT !.rafCallbacks = Append(@, h), !.animationFrame = h]

\* tick with a fault: the next frame is not requested
tick_NoReschedule(s) ==
    IF ~s.playing THEN s
    ELSE
      LET s1 == IF s.lastRealTime # NoTime
                THEN LET s11 == [s EXCEPT !.currentTime = TickAdvance(s)]
                     IN  IF s11.currentTime >= maxTime THEN pause(s11) ELSE s11
                ELSE s
      IN  [s1 EXCEPT !.lastRealTime = now]

tick(s) ==
    IF ~s.playing THEN s
    ELSE
      LET s1 == IF s.lastRealTime # NoTime
                THEN LET s11 == [s EXCEPT !.currentTime = TickAdvance(s)]
                     IN  IF s11.currentTime >= maxTime THEN pause(s11) ELSE s11
                ELSE s
          s2 == [s1 EXCEPT !.lastRealTime = now]
          h  == FreshHandle(s2)
      IN  [s2 EXCEPT !.rafCallbacks = Append(@, h), !.animationFrame = h]

\* play with a fault: lastRealTime is set only when it is null, as if
\* pause() had cleared it
play_KeepsStamp(s) ==
    tick([s EXCEPT !.playing = TRUE,
                   !.lastRealTime = IF @ = NoTime THEN now ELSE @])

\* play with a fault: the first tick is not run in the same task
play_NoTick(s) ==
    [s EXCEPT !.playing = TRUE, !.lastRealTime = now]

\* play with a fault: lastRealTime is not set before the first tick
play_NoClockRead(s) ==
    tick([s EXCEPT !.playing = TRUE])

\* play() reads performance.now() and tick() reads it again in the same
\* task: both reads are the same instant here (elapsed 0 in that tick).
play(s) ==
    tick([s EXCEPT !.playing = TRUE, !.lastRealTime = now])

\* seek with a fault: no lower clamp
seek_NoFloor(s, time) ==
    [s EXCEPT !.currentTime = Min(time, maxTime)]

\* seek with a fault: no upper clamp
seek_NoCeil(s, time) ==
    [s EXCEPT !.currentTime = Max(0, time)]

\* seek with a fault: no clamp at all
seek_Unclamped(s, time) ==
    [s EXCEPT !.currentTime = time]

\* seek with a fault: it stops the clock as well
seek_Pauses(s, time) ==
    pause([s EXCEPT !.currentTime = Max(0, Min(time, maxTime))])

seek(s, time) ==
    [s EXCEPT !.currentTime = Max(0, Min(time, maxTime))]

\* '+' with a fault: no upper limit
SpeedUp_NoCap(sp) == sp * 2

SpeedUp(sp) == Min(sp * 2, 10 * UnitsPerSecond)

\* sp / 2 is exact for the even values; the odd value 5 (0.625x) halves to
\* less than 0.5x and is clamped either way.
SpeedDown(sp) == Max(sp \div 2, UnitsPerSecond \div 2)

\* Handlers that would leave more than MaxPending callbacks pending are
\* not taken (the user's input between two frames is bounded).
Apply(s) ==
    /\ Len(s.rafCallbacks) <= MaxPending
    /\ playing' = s.playing
    /\ currentTime' = s.currentTime
    /\ playbackSpeed' = s.playbackSpeed
    /\ animationFrame' = s.animationFrame
    /\ lastRealTime' = s.lastRealTime
    /\ rafCallbacks' = s.rafCallbacks

Op(name, arg) == [name |-> name, arg |-> arg]

\* The time a seek was asked for, as the history records it: the request
\* itself when it lies within [0, maxTime], else one unit outside on its side
\* (requests further out are indistinguishable and would only multiply states).
Requested(time) ==
    IF time < 0 THEN -1 ELSE IF time > maxTime THEN maxTime + 1 ELSE time

\* ------------------------------------------------------------------ Init
Init ==
    /\ events = <<>>
    /\ loading = TRUE
    /\ error = FALSE
    /\ playing = FALSE
    /\ currentTime = 0
    /\ playbackSpeed = UnitsPerSecond
    /\ animationFrame = NoFrame
    /\ lastRealTime = NoTime
    /\ now = 0
    /\ rafCallbacks = <<>>
    /\ rafRunning = <<>>
    /\ view = "created"
    /\ fetching = FALSE
    /\ lastOp = Op("init", 0)
    /\ mcp_running = FALSE
    /\ screenshotUrl = NoUrl
    /\ polling = TRUE
    /\ pollInterval = NoTimer
    /\ timers = {}
    /\ mountTask = "none"
    /\ polls = <<>>
    /\ monitor = "created"
    /\ created = {}
    /\ revoked = {}
    /\ monitorOp = "init"

\* --------------------------------------------------------------- actions
\* The event loop runs one task at a time: no handler runs while the
\* callbacks of a frame are being run.
Idle == rafRunning = <<>>

\* onMount: fetchEvents() up to its await, and the keydown listener
Mount ==
    /\ view = "created"
    /\ view' = "mounted"
    /\ loading' = TRUE
    /\ error' = FALSE
    /\ fetching' = TRUE
    /\ lastOp' = Op("mount", 0)
    /\ UNCHANGED <<monitorVars, events, playing, currentTime, playbackSpeed, animationFrame,
                   lastRealTime, now, rafCallbacks, rafRunning>>

\* fetchEvents resumes after a successful fetch: events = data.events || []
FetchOk(log) ==
    /\ fetching /\ Idle
    /\ fetching' = FALSE
    /\ events' = log
    /\ loading' = FALSE
    /\ lastOp' = Op("fetchOk", 0)
    /\ UNCHANGED <<monitorVars, error, playing, currentTime, playbackSpeed, animationFrame,
                   lastRealTime, now, rafCallbacks, rafRunning, view>>

\* the catch block with a fault: it returns without `loading = false`
FetchFail_StillLoading ==
    /\ fetching /\ Idle
    /\ fetching' = FALSE
    /\ error' = TRUE
    /\ events' = <<>>
    /\ lastOp' = Op("fetchFail", 0)
    /\ UNCHANGED <<monitorVars, loading, playing, currentTime, playbackSpeed,
                   animationFrame, lastRealTime, now, rafCallbacks,
                   rafRunning, view>>

\* fetchEvents resumes in its catch block (non-OK response or thrown error)
FetchFail ==
    /\ fetching /\ Idle
    /\ fetching' = FALSE
    /\ error' = TRUE
    /\ events' = <<>>
    /\ loading' = FALSE
    /\ lastOp' = Op("fetchFail", 0)
    /\ UNCHANGED <<monitorVars, playing, currentTime, playbackSpeed, animationFrame,
                   lastRealTime, now, rafCallbacks, rafRunning, view>>

Listening == view = "mounted" /\ Idle

\* the controls are rendered only in the {:else} branch of loading / error
ControlsShown == Listening /\ ~loading /\ ~error

HandlerFrame == UNCHANGED <<monitorVars, events, loading, error, now, rafRunning, view, fetching>>

\* handleKeydown ' ', and the Play/Pause button
TogglePlay ==
    /\ Apply(IF playing THEN pause(St) ELSE play(St))
    /\ lastOp' = Op(IF playing THEN "pause" ELSE "play", 0)
    /\ HandlerFrame

KeySpace == Listening /\ TogglePlay

ClickPlayPause == ControlsShown /\ TogglePlay

\* handleKeydown ArrowLeft / ArrowRight
KeyArrow(dir) ==
    /\ Listening
    /\ Apply(seek(St, currentTime + dir * 5 * UnitsPerSecond))
    /\ lastOp' = Op("seek", Requested(currentTime + dir * 5 * UnitsPerSecond))
    /\ HandlerFrame

\* the slider's own onkeydown runs, then the window listener: two seeks
SliderArrow(dir) ==
    /\ ControlsShown
    /\ LET s1 == seek(St, currentTime + dir * 5 * UnitsPerSecond)
           t2 == s1.currentTime + dir * 5 * UnitsPerSecond
       IN  /\ Apply(seek(s1, t2))
           /\ lastOp' = Op("seek", Requested(t2))
    /\ HandlerFrame

\* handleTimelineClick: percent = x / rect.width, in quarters of the track
TimelineClick(quarter) ==
    /\ ControlsShown
    /\ Apply(seek(St, (quarter * maxTime) \div 4))
    /\ lastOp' = Op("seek", Requested((quarter * maxTime) \div 4))
    /\ HandlerFrame

\* handleKeydown '+' / '='
KeyPlus ==
    /\ Listening
    /\ Apply([St EXCEPT !.playbackSpeed = SpeedUp(@)])
    /\ lastOp' = Op("speed", 0)
    /\ HandlerFrame

\* handleKeydown '-'
KeyMinus ==
    /\ Listening
    /\ Apply([St EXCEPT !.playbackSpeed = SpeedDown(@)])
    /\ lastOp' = Op("speed", 0)
    /\ HandlerFrame

\* <select bind:value={playbackSpeed}>: 0.5x, 1x, 2x, 5x, 10x
SpeedOptions == {UnitsPerSecond \div 2, UnitsPerSecond, 2 * UnitsPerSecond,
                 5 * UnitsPerSecond, 10 * UnitsPerSecond}

SelectSpeed(v) ==
    /\ ControlsShown
    /\ v # playbackSpeed
    /\ Apply([St EXCEPT !.playbackSpeed = v])
    /\ lastOp' = Op("speed", 0)
    /\ HandlerFrame

\* onDestroy: pause() and removeEventListener
Destroy ==
    /\ Listening
    /\ view' = "destroyed"
    /\ Apply(pause(St))
    /\ lastOp' = Op("destroy", 0)
    /\ UNCHANGED <<monitorVars, events, loading, error, now, rafRunning, fetching>>

\* wall-clock time passes between tasks
Advance ==
    /\ Idle
    /\ now + 1000 <= MaxSeconds * 1000
    /\ now' = now + 1000
    /\ UNCHANGED <<monitorVars, events, loading, error, playing, currentTime, playbackSpeed,
                   animationFrame, lastRealTime, rafCallbacks, rafRunning,
                   view, fetching, lastOp>>

\* The browser starts a frame: the ids in the callback list now are the ones
\* this frame runs (callbacks requested during the frame wait for the next).
BeginFrame ==
    /\ Idle
    /\ rafCallbacks # <<>>
    /\ rafRunning' = rafCallbacks
    /\ UNCHANGED <<monitorVars, events, loading, error, playing, currentTime, playbackSpeed,
                   animationFrame, lastRealTime, now, rafCallbacks,
                   view, fetching, lastOp>>

\* The browser runs the next callback of the frame, unless it was cancelled:
\* the entry is removed from the list and tick() is invoked.
RunCallback ==
    /\ rafRunning # <<>>
    /\ LET h == Head(rafRunning)
       IN  IF h \in Range(rafCallbacks)
           THEN /\ Apply(tick(cancelAnimationFrame(St, h)))
                /\ lastOp' = Op(IF playing THEN "tick" ELSE "staleTick", 0)
           ELSE /\ Apply(St)
                /\ lastOp' = Op("cancelled", 0)
    /\ rafRunning' = Tail(rafRunning)
    /\ UNCHANGED <<monitorVars, events, loading, error, now, view, fetching>>

Next ==
    \/ Mount
    \/ \E log \in SessionLogs : FetchOk(log)
    \/ FetchFail
    \/ KeySpace
    \/ ClickPlayPause
    \/ \E dir \in {-1, 1} : KeyArrow(dir)
    \/ \E dir \in {-1, 1} : SliderArrow(dir)
    \/ \E quarter \in 0..4 : TimelineClick(quarter)
    \/ KeyPlus
    \/ KeyMinus
    \/ \E v \in SpeedOptions : SelectSpeed(v)
    \/ Destroy
    \/ Advance
    \/ BeginFrame
    \/ RunCallback

Spec == Init /\ [][Next]_vars

\* ------------------------------------------------------- scrubbing a log
\* handleTimelineClick at the point of the track that stands for `time`
\* (percent = time / maxTime)
ClickAt(time) ==
    /\ ControlsShown
    /\ time <= maxTime
    /\ Apply(seek(St, time))
    /\ lastOp' = Op("seek", Requested(time))
    /\ HandlerFrame

\* A view that is mounted, loads any of the generated logs and is then
\* scrubbed over the whole timeline.
ScrubNext ==
    \/ Mount
    \/ \E log \in ScrubLogs : FetchOk(log)
    \/ \E time \in 0..(MaxLogSeconds * UnitsPerSecond) : ClickAt(time)

ScrubSpec == Init /\ [][ScrubNext]_vars

\* ------------------------------------------------ uninterrupted playback
\* the cursor is placed before playback was ever started
PlaceCursor(quarter) ==
    /\ lastRealTime = NoTime
    /\ TimelineClick(quarter)

\* space or the Play/Pause button while the clock is Stopped
PressPlay ==
    /\ ~playing
    /\ ClickPlayPause

\* wall-clock time passes during playback, one step between two ticks
PlaybackAdvance ==
    /\ Idle
    /\ playing
    /\ now - lastRealTime < 1000
    /\ now' = now + 1000
    /\ UNCHANGED <<monitorVars, events, loading, error, playing, currentTime, playbackSpeed,
                   animationFrame, lastRealTime, rafCallbacks, rafRunning,
                   view, fetching, lastOp>>

\* A loaded view whose playback, once started, is not paused, sought or
\* closed; the speed may be set to the slowest or the fastest option at any
\* time.
PlaybackNext ==
    \/ Mount
    \/ \E log \in SessionLogs : FetchOk(log)
    \/ \E quarter \in 0..4 : PlaceCursor(quarter)
    \/ PressPlay
    \/ \E v \in {UnitsPerSecond \div 2, 10 * UnitsPerSecond} : SelectSpeed(v)
    \/ PlaybackAdvance
    \/ BeginFrame
    \/ RunCallback

\* The browser keeps running animation frames, and wall-clock time passes
\* between them again and again (it can only pass between two tasks, so it
\* is not continuously enabled: strong fairness).
PlaybackSpec ==
    /\ Init
    /\ [][PlaybackNext]_vars
    /\ SF_vars(PlaybackAdvance)
    /\ WF_vars(BeginFrame)
    /\ WF_vars(RunCallback)

\* ---------------------------------------------------------- live monitor
\* URL.createObjectURL returns a URL that was never returned before
FreshUrl == Cardinality(created) + 1

\* setTimeout returns an id that is neither pending nor remembered
FreshTimer ==
    CHOOSE t \in 1..(Cardinality(timers) + 2) :
        /\ t \notin timers
        /\ t # pollInterval
        /\ \A u \in 1..(t - 1) : u \in timers \/ u = pollInterval

\* fetchStatus resumes with the agent's answer, and fetchScreenshot is
\* called: without mcp_running it drops screenshotUrl and returns, so that
\* fetchEvents is awaited next; else the screenshot is fetched
StatusFetched(b) ==
    /\ mcp_running' = b
    /\ screenshotUrl' = IF b THEN screenshotUrl ELSE NoUrl
    /\ UNCHANGED <<created, revoked>>

AfterStatus(b) == IF b THEN "screenshot" ELSE "events"

\* fetchScreenshot resumes: with an ok response the old URL, if any, is
\* revoked and a URL for the new blob is created; else nothing is done
ScreenshotFetched(ok) ==
    /\ ok => Cardinality(created) < MaxUrls
    /\ IF ok
       THEN /\ revoked' = IF screenshotUrl # NoUrl
                          THEN revoked \cup {screenshotUrl} ELSE revoked
            /\ created' = created \cup {FreshUrl}
            /\ screenshotUrl' = FreshUrl
       ELSE UNCHANGED <<screenshotUrl, created, revoked>>
    /\ UNCHANGED mcp_running

\* poll() is called: unless polling is off, fetchStatus is started
PollCalled(running) ==
    polls' = IF polling THEN Append(running, "status") ELSE running

\* poll() with a fault: the polling flag is not looked at
PollEnds_NoFlag(running) ==
    /\ pollInterval' = FreshTimer
    /\ timers' = timers \cup {FreshTimer}
    /\ polls' = running

\* the end of poll(): the next poll is scheduled unless polling is off
PollEnds(running) ==
    /\ IF polling
       THEN /\ pollInterval' = FreshTimer
            /\ timers' = timers \cup {FreshTimer}
       ELSE UNCHANGED <<pollInterval, timers>>
    /\ polls' = running

\* onMount: the callback runs up to its first await (fetchHealth)
MonitorMount ==
    /\ monitor = "created"
    /\ monitor' = "mounted"
    /\ mountTask' = "health"
    /\ monitorOp' = "mount"
    /\ UNCHANGED <<replayVars, mcp_running, screenshotUrl, polling,
                   pollInterval, timers, polls, created, revoked>>

MountHealth ==
    /\ mountTask = "health"
    /\ mountTask' = "status"
    /\ monitorOp' = "health"
    /\ UNCHANGED <<replayVars, mcp_running, screenshotUrl, polling,
                   pollInterval, timers, polls, monitor, created, revoked>>

MountStatus(b) ==
    /\ mountTask = "status"
    /\ StatusFetched(b)
    /\ mountTask' = AfterStatus(b)
    /\ monitorOp' = "status"
    /\ UNCHANGED <<replayVars, polling, pollInterval, timers, polls, monitor>>

MountScreenshot(ok) ==
    /\ mountTask = "screenshot"
    /\ ScreenshotFetched(ok)
    /\ mountTask' = "events"
    /\ monitorOp' = "screenshot"
    /\ UNCHANGED <<replayVars, polling, pollInterval, timers, polls, monitor>>

\* fetchEvents resumes and the callback ends with poll()
MountEvents ==
    /\ mountTask = "events"
    /\ mountTask' = "done"
    /\ PollCalled(polls)
    /\ monitorOp' = "mountEnd"
    /\ UNCHANGED <<replayVars, mcp_running, screenshotUrl, polling,
                   pollInterval, timers, monitor, created, revoked>>

PollStatus(i, b) ==
    /\ i \in 1..Len(polls)
    /\ polls[i] = "status"
    /\ StatusFetched(b)
    /\ polls' = [polls EXCEPT ![i] = AfterStatus(b)]
    /\ monitorOp' = "status"
    /\ UNCHANGED <<replayVars, polling, pollInterval, timers, mountTask,
                   monitor>>

PollScreenshot(i, ok) ==
    /\ i \in 1..Len(polls)
    /\ polls[i] = "screenshot"
    /\ ScreenshotFetched(ok)
    /\ polls' = [polls EXCEPT ![i] = "events"]
    /\ monitorOp' = "screenshot"
    /\ UNCHANGED <<replayVars, polling, pollInterval, timers, mountTask,
                   monitor>>

\* fetchEvents resumes and poll() comes to its end
PollEvents(i) ==
    /\ i \in 1..Len(polls)
    /\ polls[i] = "events"
    /\ PollEnds(SubSeq(polls, 1, i - 1) \o SubSeq(polls, i + 1, Len(polls)))
    /\ monitorOp' = "pollEnd"
    /\ UNCHANGED <<replayVars, mcp_running, screenshotUrl, polling,
                   mountTask, monitor, created, revoked>>

\* a timeout set by poll() expires and poll() is called
TimerFires(t) ==
    /\ t \in timers
    /\ timers' = timers \ {t}
    /\ PollCalled(polls)
    /\ monitorOp' = "timer"
    /\ UNCHANGED <<replayVars, mcp_running, screenshotUrl, polling,
                   pollInterval, mountTask, monitor, created, revoked>>

\* Start Agent / Stop Agent: the fetchStatus of the handler brings a new
\* agent status
AgentButton(b) ==
    /\ monitor = "mounted"
    /\ b # mcp_running
    /\ mcp_running' = b
    /\ monitorOp' = "agent"
    /\ UNCHANGED <<replayVars, screenshotUrl, polling, pollInterval, timers,
                   mountTask, polls, monitor, created, revoked>>

\* onDestroy
MonitorDestroy ==
    /\ monitor = "mounted"
    /\ monitor' = "destroyed"
    /\ polling' = FALSE
    /\ timers' = IF pollInterval # NoTimer
                 THEN timers \ {pollInterval} ELSE timers
    /\ revoked' = IF screenshotUrl # NoUrl
                  THEN revoked \cup {screenshotUrl} ELSE revoked
    /\ monitorOp' = "destroy"
    /\ UNCHANGED <<replayVars, mcp_running, screenshotUrl, pollInterval,
                   mountTask, polls, created>>

MonitorNext ==
    \/ MonitorMount
    \/ MountHealth
    \/ \E b \in BOOLEAN : MountStatus(b)
    \/ \E ok \in BOOLEAN : MountScreenshot(ok)
    \/ MountEvents
    \/ \E i \in 1..Len(polls) : \E b \in BOOLEAN : PollStatus(i, b)
    \/ \E i \in 1..Len(polls) : \E ok \in BOOLEAN : PollScreenshot(i, ok)
    \/ \E i \in 1..Len(polls) : PollEvents(i)
    \/ \E t \in timers : TimerFires(t)
    \/ \E b \in BOOLEAN : AgentButton(b)
    \/ MonitorDestroy

MonitorSpec == Init /\ [][MonitorNext]_vars

\* ================================================================ claims
\* a tick callback is about to run while the clock is Running / Stopped
RunningTickDue ==
    rafRunning # <<>> /\ Head(rafRunning) \in Range(rafCallbacks) /\ playing

StaleTickDue ==
    rafRunning # <<>> /\ Head(rafRunning) \in Range(rafCallbacks) /\ ~playing

\* C1: in every reachable state of the replay view the cursor satisfies
\* 0 <= cursor <= max_time (the logs' game_time values are >= 0).
C1_CursorInRange == 0 <= currentTime /\ currentTime <= maxTime

\* a tick has brought the cursor from below to the end of a non-empty log
C1_Witness == lastOp.name = "tick" /\ currentTime = maxTime /\ maxTime > 0

\* C2: when a tick brings the cursor to max_time the clock is Stopped and
\* no tick callback is pending once that tick has completed.
C2_EndTickLeavesNothingPending ==
    [][(RunningTickDue /\ currentTime < maxTime /\ currentTime' = maxTime)
          => (playing' = FALSE /\ rafCallbacks' = <<>>)]_vars

\* C3: at most one tick callback is pending at any moment.
C3_AtMostOnePending == Len(rafCallbacks) <= 1

\* C4: a tick callback that fires while the clock is Stopped changes
\* neither cursor nor playing (nor the stored timestamp or frame id) and
\* schedules nothing: the callback list only loses the callback that ran.
C4_StaleTickIsNoOp ==
    [][StaleTickDue =>
          /\ currentTime' = currentTime
          /\ playing' = playing
          /\ lastRealTime' = lastRealTime
          /\ animationFrame' = animationFrame
          /\ rafCallbacks' = Remove(rafCallbacks, Head(rafRunning))]_vars

\* a late callback has run after playback stopped away from the start
C4_Witness == lastOp.name = "staleTick" /\ ~playing /\ currentTime > 0

\* C5: pause() called while Running leaves the clock Stopped with no tick
\* callback pending when it returns.
C5_PauseCancelsTick ==
    lastOp.name = "pause" => (~playing /\ rafCallbacks = <<>>)

\* C6: after the view's destroy handler has run no tick callback remains
\* pending.
C6_DestroyCancelsTick == view = "destroyed" => rafCallbacks = <<>>

\* C7: a tick executed while Running sets the cursor to
\* min(cursor + elapsed * speed_multiplier, max_time), elapsed being the
\* wall time since last_tick_wallclock and the speed the one in force when
\* the tick runs, and sets last_tick_wallclock to now.
C7_TickAdvances ==
    [][RunningTickDue =>
          /\ lastRealTime # NoTime
          /\ currentTime' =
                Min(currentTime
                      + ((now - lastRealTime) \div 1000) * playbackSpeed,
                    maxTime)
          /\ lastRealTime' = now]_vars

\* the scenario of the claim: speed 2, one tick 1.0 s after play(), cursor 2.0
C7_Witness ==
    /\ lastOp.name = "tick"
    /\ playbackSpeed = 2 * UnitsPerSecond
    /\ now = 1000 /\ lastRealTime = 1000
    /\ currentTime = 2 * UnitsPerSecond

\* C8: seek(t) leaves the cursor at t clamped into [0, max_time]: 0 for
\* t < 0, max_time for t > max_time, t otherwise; so do the arrow keys
\* (cursor -/+ 5 s) and a timeline click (fraction * max_time).  lastOp.arg
\* is the request of the last seek, and every handler that moves the cursor
\* records itself in lastOp.
C8_SeekClamps ==
    lastOp.name = "seek" =>
        /\ lastOp.arg < 0 => currentTime = 0
        /\ lastOp.arg > maxTime => currentTime = maxTime
        /\ (0 <= lastOp.arg /\ lastOp.arg <= maxTime) => currentTime = lastOp.arg

\* a seek past the end of a non-empty log was clamped to max_time
C8_Witness ==
    /\ lastOp.name = "seek"
    /\ lastOp.arg > maxTime
    /\ maxTime > 0
    /\ currentTime = maxTime

\* C9: whenever state_at interpolates, before.game_time <= time <=
\* after.game_time.
C9_InterpolationBracketsTime ==
    Interpolates(snapshots, currentTime) =>
        LET ba == Bracket(snapshots, currentTime)
        IN  /\ snapshots[ba[1]].game_time <= currentTime
            /\ currentTime <= snapshots[ba[2]].game_time

\* C10: if no snapshot has game_time >= time, `after` is the same snapshot
\* as `before`, the last one, and its aircraft list is returned verbatim.
C10_PastLastSnapshotIsVerbatim ==
    (/\ Len(snapshots) > 0
     /\ \A i \in 1..Len(snapshots) : snapshots[i].game_time < currentTime)
        => LET ba == Bracket(snapshots, currentTime)
           IN  /\ ba[1] = Len(snapshots)
               /\ ba[2] = ba[1]
               /\ ReturnsVerbatim(snapshots, currentTime)

\* snapshot i has a game_time different from its neighbours' in the list
DistinctFromNeighbours(snaps, i) ==
    /\ i > 1 => snaps[i - 1].game_time < snaps[i].game_time
    /\ i < Len(snaps) => snaps[i].game_time < snaps[i + 1].game_time

\* C11: with the cursor exactly at the game_time of a snapshot whose
\* neighbours have other game_times, the aircraft shown are that snapshot's
\* aircraft list itself, nothing interpolated.
C11_AtSnapshotIsVerbatim ==
    \A i \in 1..Len(snapshots) :
        (DistinctFromNeighbours(snapshots, i)
            /\ currentTime = snapshots[i].game_time)
        => currentAircraft = snapshots[i].aircraft

\* the cursor was put on the second of two snapshots with other aircraft
C11_Witness ==
    /\ lastOp.name = "seek"
    /\ Len(snapshots) >= 2
    /\ snapshots[1].game_time < snapshots[2].game_time
    /\ currentTime = snapshots[2].game_time
    /\ snapshots[1].aircraft # snapshots[2].aircraft
    /\ currentAircraft = snapshots[2].aircraft

\* the cursor lies strictly between snapshot i and the next one
Between(snaps, i, time) ==
    /\ i < Len(snaps)
    /\ snaps[i].game_time < time
    /\ time < snaps[i + 1].game_time

\* C12: with the cursor strictly between two adjacent snapshots, every
\* callsign of both is shown with altitude, speed and each position axis at
\* before + (after - before) * t, t = (time - before.game_time) /
\* (after.game_time - before.game_time).  Stated with both sides multiplied
\* by the length of the interval.
C12_LinearBetweenSnapshots ==
    \A i \in 1..Len(snapshots) :
        Between(snapshots, i, currentTime) =>
            LET before == snapshots[i]
                after == snapshots[i + 1]
                dt == after.game_time - before.game_time
                el == currentTime - before.game_time
                Scaled(b, a) == Num(b[1] * dt + (a[1] - b[1]) * el)
            IN  \A b \in Range(before.aircraft) :
                \A a \in Range(after.aircraft) :
                    b.callsign = a.callsign =>
                        \E k \in 1..Len(currentAircraft) :
                            LET out == currentAircraft[k]
                            IN  /\ out.callsign = b.callsign
                                /\ RMul(out.altitude, Num(dt))
                                     = Scaled(b.altitude, a.altitude)
                                /\ RMul(out.speed, Num(dt))
                                     = Scaled(b.speed, a.speed)
                                /\ RMul(out.position[1], Num(dt))
                                     = Scaled(b.position[1], a.position[1])
                                /\ RMul(out.position[2], Num(dt))
                                     = Scaled(b.position[2], a.position[2])

\* the scenario: altitude 1000, heading 350 and altitude 2000, heading 10
\* give altitude 1500, heading 0 halfway between the two snapshots
C12_Witness ==
    /\ lastOp.name = "seek"
    /\ Len(snapshots) = 2
    /\ Between(snapshots, 1, currentTime)
    /\ 2 * currentTime = snapshots[1].game_time + snapshots[2].game_time
    /\ snapshots[1].aircraft[1] = AcA0
    /\ snapshots[2].aircraft[Len(snapshots[2].aircraft)] = AcA1
    /\ currentAircraft[1].altitude = Num(1500)
    /\ currentAircraft[1].heading = Num(0)
    /\ currentAircraft[1].speed = Num(220)
    /\ currentAircraft[1].position = <<Num(2), Num(4)>>

\* the delta from heading a to heading b along the shortest way round:
\* b - a moved by a full turn into -180..180 (a half turn keeps its sign)
ShortestDelta(a, b) ==
    CHOOSE d \in -180..180 :
        /\ (d - (b - a)) % 360 = 0
        /\ Abs(b - a) = 180 => d = b - a

\* C13: for headings a, b in [0, 360) and a fraction t in [0, 1] the
\* interpolated heading lies in [0, 360) and is a + d * t up to full turns,
\* d being the shortest delta from a to b; strictly between the two
\* snapshots it is the heading shown.  Stated with t = el / dt and both
\* sides multiplied by dt.
C13_HeadingShortestPath ==
    \A i \in 1..(Len(snapshots) - 1) :
        LET before == snapshots[i]
            after == snapshots[i + 1]
            dt == after.game_time - before.game_time
            el == currentTime - before.game_time
        IN  (dt > 0 /\ 0 <= el /\ el <= dt) =>
            \A b \in Range(before.aircraft) :
            \A a \in Range(after.aircraft) :
                b.callsign = a.callsign =>
                    LET h == interpolateAngle(b.heading, a.heading,
                                              Rat(el, dt))
                        d == ShortestDelta(b.heading[1], a.heading[1])
                        hdt == RMul(h, Num(dt))
                    IN  /\ RLeq(Num(0), h)
                        /\ RLess(h, Num(360))
                        /\ hdt[2] = 1
                        /\ (hdt[1] - (b.heading[1] * dt + d * el))
                              % (360 * dt) = 0
                        /\ Between(snapshots, i, currentTime) =>
                              \E k \in 1..Len(currentAircraft) :
                                  /\ currentAircraft[k].callsign = b.callsign
                                  /\ currentAircraft[k].heading = h

\* halfway from heading 350 to heading 10 the heading shown is 0
C13_Witness ==
    /\ lastOp.name = "seek"
    /\ events \in HeadingLogs
    /\ snapshots[1].aircraft[1].heading = Num(350)
    /\ snapshots[2].aircraft[1].heading = Num(10)
    /\ 2 * currentTime = snapshots[2].game_time
    /\ interpolateAngle(Num(350), Num(10), Rat(1, 2)) = Num(0)
    /\ currentAircraft[1].heading = Num(0)

\* the cursor is in the bracket of snapshot i: at it or past it, and before
\* the next snapshot
InBracket(snaps, i, time) ==
    /\ i < Len(snaps)
    /\ snaps[i].game_time <= time
    /\ time < snaps[i + 1].game_time

\* C14: at every time of the bracket of two adjacent snapshots, an aircraft
\* of the earlier snapshot whose callsign the later one lacks is shown with
\* the record of the earlier snapshot, unchanged.
C14_DepartedShownUnchanged ==
    \A i \in 1..Len(snapshots) :
        InBracket(snapshots, i, currentTime) =>
            \A b \in Range(snapshots[i].aircraft) :
                (\A a \in Range(snapshots[i + 1].aircraft) :
                     a.callsign # b.callsign)
                => \E k \in 1..Len(currentAircraft) : currentAircraft[k] = b

\* AC2 is in the first snapshot only; between the snapshots AC1 is shown
\* interpolated and AC2 as it was
C14_Witness ==
    /\ lastOp.name = "seek"
    /\ Len(snapshots) = 2
    /\ Between(snapshots, 1, currentTime)
    /\ snapshots[1].aircraft = <<AcA0, AcB0>>
    /\ snapshots[2].aircraft = <<AcA1>>
    /\ currentAircraft[1] # AcA0
    /\ currentAircraft[2] = AcB0

\* the index of the last snapshot at or before time, the first snapshot
\* when there is none
LastAtOrBefore(snaps, time) ==
    LET at == {i \in 1..Len(snaps) : snaps[i].game_time <= time}
    IN  IF at = {} THEN 1 ELSE CHOOSE i \in at : \A j \in at : j <= i

Callsigns(list) == [k \in 1..Len(list) |-> list[k].callsign]

\* C15: at every time the callsigns shown are the callsigns of the last
\* snapshot at or before the cursor (the first snapshot when there is
\* none), in the same order; so a callsign of the later snapshot alone is
\* not shown.
C15_CallsignsOfBefore ==
    Len(snapshots) > 0 =>
        Callsigns(currentAircraft) =
            Callsigns(snapshots[LastAtOrBefore(snapshots, currentTime)].aircraft)

\* AC2 is in the second snapshot only; between the snapshots AC1 alone is
\* shown
C15_Witness ==
    /\ lastOp.name = "seek"
    /\ Len(snapshots) = 2
    /\ Between(snapshots, 1, currentTime)
    /\ snapshots[1].aircraft = <<AcA1>>
    /\ snapshots[2].aircraft = <<AcB1, AcA1>>
    /\ Interpolates(snapshots, currentTime)
    /\ Callsigns(currentAircraft) = <<"AC1">>

\* C16: whatever the order of the conflict and ils_clearance events in the
\* log, the timeline has one marker for each of them, in ascending time;
\* markers of equal time stand conflicts first, then ils clearances, each
\* group in the order of the log.  The place of each marker is given by
\* counting the events that must come before it.
C16_MarkersSortedStable ==
    LET cs == OfType(events, "conflict")
        is == OfType(events, "ils_clearance")
        n == Len(cs) + Len(is)
        T(i) == IF i <= Len(cs) THEN cs[i].game_time
                ELSE is[i - Len(cs)].game_time
        Place(i) == Cardinality({j \in 1..n :
                        T(j) < T(i) \/ (T(j) = T(i) /\ j <= i)})
    IN  /\ Len(timelineEvents) = n
        /\ \A i \in 1..n : \A j \in i..n :
               timelineEvents[i].time <= timelineEvents[j].time
        /\ \A i \in 1..n :
               timelineEvents[Place(i)] =
                   IF i <= Len(cs) THEN ConflictMarker(cs[i])
                   ELSE IlsMarker(is[i - Len(cs)])

\* a log with an ils clearance and a conflict at the same time followed by
\* an earlier conflict: the earlier conflict comes first, then the conflict,
\* then the ils clearance
C16_Witness ==
    /\ lastOp.name = "fetchOk"
    /\ Len(events) = 3
    /\ EventType(events[1]) = "ils_clearance"
    /\ EventType(events[2]) = "conflict"
    /\ EventType(events[3]) = "conflict"
    /\ events[1].game_time = events[2].game_time
    /\ events[3].game_time < events[2].game_time
    /\ timelineEvents = <<ConflictMarker(events[3]), ConflictMarker(events[2]),
                          IlsMarker(events[1])>>

\* C17: the playback speed is never below 0.5x and never above 10x.
C17_SpeedInRange ==
    /\ UnitsPerSecond \div 2 <= playbackSpeed
    /\ playbackSpeed <= 10 * UnitsPerSecond

\* the speed was changed during playback and stands at the lower limit
C17_Witness ==
    /\ lastOp.name = "speed"
    /\ playing
    /\ playbackSpeed = UnitsPerSecond \div 2

\* C18: as long as the event list is empty, max time is 0, no aircraft are
\* shown at any time, and whatever was played, paused, sought, sped up or
\* ticked, the cursor stands at 0 and the clock is stopped.
C18_EmptyLogIsInert ==
    events = <<>> =>
        /\ maxTime = 0
        /\ \A time \in 0..(MaxSeconds * UnitsPerSecond) :
               AircraftAt(snapshots, time) = <<>>
        /\ currentAircraft = <<>>
        /\ currentTime = 0
        /\ ~playing

\* an empty log was loaded without error and play was pressed
C18_Witness ==
    /\ events = <<>>
    /\ ~loading
    /\ ~error
    /\ lastOp.name = "play"
    /\ currentTime = 0

\* C19: while the load is in flight the event list is still empty, and
\* after any play or seek the cursor stands where it was, at 0, and the
\* clock is stopped.
C19_NoTransportWhileLoading ==
    loading =>
        /\ events = <<>>
        /\ currentTime = 0
        /\ ~playing

\* play was pressed while the load was in flight; its tick ran and left a
\* callback pending, yet the clock is stopped
C19_Witness ==
    /\ loading
    /\ fetching
    /\ lastOp.name = "play"
    /\ rafCallbacks # <<>>
    /\ ~playing
    /\ currentTime = 0

\* the kinds of event whose game_time is read (session_start and
\* session_end carry none)
RequiresGameTime ==
    {"state_snapshot", "decision", "conflict", "ils_clearance", "landing"}

\* the event has an event_type, and a game_time if its kind requires one
WellFormed(e) ==
    /\ "event_type" \in DOMAIN e
    /\ e.event_type \in RequiresGameTime => "game_time" \in DOMAIN e

\* C20: a list with an event that lacks event_type, or that lacks a numeric
\* game_time although its kind requires one, is never taken as the event
\* list of the view: every event of the list is well-formed.
C20_MalformedNeverAccepted ==
    \A i \in 1..Len(events) : WellFormed(events[i])

\* C21: once a load has failed the event list is empty, the error is set
\* and the view is not loading any more, whatever is done afterwards.
C21_FailedLoadIsAtomic ==
    (error \/ lastOp.name = "fetchFail") =>
        /\ events = <<>>
        /\ error
        /\ ~loading
        /\ ~fetching

\* the load has just failed
C21_Witness ==
    /\ lastOp.name = "fetchFail"
    /\ error
    /\ events = <<>>
    /\ ~loading

\* the step is a seek handler: a seek is the last operation after it, and
\* neither the wall clock nor the frame in progress moved
SeekStep ==
    /\ lastOp'.name = "seek"
    /\ now' = now
    /\ rafRunning' = rafRunning

\* C22: a seek, whether the clock is Running or Stopped, changes nothing
\* but the cursor: playing, speed, the stored timestamp, the frame id and
\* the pending tick callbacks are as before.
C22_SeekChangesOnlyCursor ==
    [][SeekStep =>
          /\ playing' = playing
          /\ playbackSpeed' = playbackSpeed
          /\ lastRealTime' = lastRealTime
          /\ animationFrame' = animationFrame
          /\ rafCallbacks' = rafCallbacks]_vars

\* a seek away from the start was made during playback; the clock is
\* still Running with its tick pending
C22_Witness ==
    /\ lastOp.name = "seek"
    /\ playing
    /\ Len(rafCallbacks) = 1
    /\ animationFrame = rafCallbacks[1]
    /\ currentTime > 0
    /\ currentTime < maxTime

\* a session is loaded: the load has finished without error
Loaded == ~loading /\ ~error

\* C23 as stated: in a loaded session the toggle pressed while Stopped
\* leaves the clock Running, pressed while Running it leaves it Stopped.
C23_ToggleAlwaysFlips ==
    Loaded =>
        /\ lastOp.name = "play" => playing
        /\ lastOp.name = "pause" => ~playing

\* C23, amended: the toggle pressed while Running leaves the clock Stopped;
\* pressed while Stopped it leaves the clock Running if the cursor is below
\* max time, and Stopped if the cursor is at max time (the first tick of
\* play() ends playback at once).
C23_ToggleFlipsBelowEnd ==
    /\ lastOp.name = "play" => (playing <=> currentTime < maxTime)
    /\ lastOp.name = "pause" => ~playing

\* play was pressed with the cursor at the end of a loaded, non-empty log:
\* the clock is Stopped
C23_Witness ==
    /\ Loaded
    /\ lastOp.name = "play"
    /\ maxTime > 0
    /\ currentTime = maxTime
    /\ ~playing

\* C24: whenever the clock is Running with the cursor below max time, and
\* playback is not paused, sought or closed while frames keep coming with
\* wall time passing between them, the cursor eventually stands at max time
\* with the clock Stopped.
C24_PlaybackTerminates ==
    (playing /\ currentTime < maxTime) ~> (currentTime = maxTime /\ ~playing)

\* a tick after wall time had passed has ended playback at max time
C24_Witness ==
    /\ lastOp.name = "tick"
    /\ now > 0
    /\ lastRealTime = now
    /\ maxTime > 0
    /\ currentTime = maxTime
    /\ ~playing

\* the step is play() called while the clock is Stopped
PlayStep ==
    /\ ~playing
    /\ lastOp'.name = "play"
    /\ now' = now
    /\ rafRunning' = rafRunning

\* C25: wall time that passed while the clock was Stopped does not move
\* the cursor.  play() leaves the cursor where it is and stores the time of
\* the play as the last-tick timestamp, however old the stored one was; and
\* the first tick after it advances the cursor by the speed times the wall
\* time since that timestamp, up to max time.
C25_StoppedTimeNotCounted ==
    [][/\ PlayStep =>
            /\ currentTime' = currentTime
            /\ lastRealTime' = now
       /\ (RunningTickDue /\ lastOp.name = "play") =>
            currentTime' =
                Min(currentTime
                      + ((now - lastRealTime) \div 1000) * playbackSpeed,
                    maxTime)]_vars

\* playback was resumed after wall time had passed: the stored timestamp
\* is the time of the play and the cursor is where playback had stopped
C25_Witness ==
    /\ lastOp.name = "play"
    /\ playing
    /\ now = MaxSeconds * 1000
    /\ lastRealTime = now
    /\ currentTime = UnitsPerSecond \div 2

\* C26: the decision log at cursor c shows only decisions with game_time <=
\* c, at most DecisionLimit of them: the last DecisionLimit such decisions
\* of the event list, the latest in the list first.  The k-th one shown is
\* the decision at or before c that has k - 1 such decisions behind it.
C26_DecisionLogIsLastTwenty ==
    LET shown == currentDecisions
        due == {i \in 1..Len(decisions) :
                   /\ "game_time" \in DOMAIN decisions[i]
                   /\ decisions[i].game_time <= currentTime}
        Behind(i) == Cardinality({j \in due : j > i})
    IN  /\ Len(shown) = Min(Cardinality(due), DecisionLimit)
        /\ \A k \in 1..Len(shown) :
               /\ shown[k].game_time <= currentTime
               /\ \E i \in due : Behind(i) = k - 1 /\ shown[k] = decisions[i]

\* more decisions than the limit are at or before the cursor and a later
\* one closes the list: the limit is shown, the first of them not the last
\* of the list
C26_Witness ==
    /\ lastOp.name = "seek"
    /\ Len(decisions) > DecisionLimit
    /\ decisions[Len(decisions)].game_time > currentTime
    /\ Len(SelectSeq(decisions, LAMBDA d : d.game_time <= currentTime))
          > DecisionLimit
    /\ Len(currentDecisions) = DecisionLimit
    /\ currentDecisions[1] = decisions[Len(decisions) - 1]

\* no fetch of the live monitor is in flight any more
MonitorQuiet == mountTask \in {"none", "done"} /\ polls = <<>>

\* C27: every screenshot object URL created is revoked in the end: a URL
\* not yet revoked is the one the view holds in screenshotUrl, and once the
\* view is destroyed and its fetches have finished every URL is revoked.
C27_EveryUrlRevoked ==
    /\ \A u \in created \ revoked : u = screenshotUrl
    /\ (monitor = "destroyed" /\ MonitorQuiet) => created \subseteq revoked

\* C28: at most one poll is in flight or scheduled, none before the fetches
\* of onMount have finished; a destroyed view has no poll scheduled, and
\* no poll starts in it.
C28_PollSequentialAndCancellable ==
    /\ [](/\ Len(polls) + Cardinality(timers) <= 1
          /\ mountTask # "done" => (polls = <<>> /\ timers = {})
          /\ monitor = "destroyed" => timers = {})
    /\ [][monitor = "destroyed" => Len(polls') <= Len(polls)]_vars

\* the view was destroyed while a poll was awaiting; the poll has ended
\* and scheduled nothing
C28_Witness ==
    /\ monitor = "destroyed"
    /\ monitorOp = "pollEnd"
    /\ pollInterval # NoTimer
    /\ polls = <<>>
    /\ timers = {}

====
